---- MODULE Spec2Model ----
(***************************************************************************)
(* The x/feemarket keeper (keeper.go) and the typed message pool it uses.  *)
(*                                                                         *)
(* State: whether NewKeeper returned a keeper and the authority it has,    *)
(* the module's key-value store (three keys), the keeper's denom           *)
(* resolver, the two sync.Pool backed message pools, the objects the pools *)
(* recycle, the pooled handles each caller holds, and the outcome of the   *)
(* last keeper call.  Every keeper method is one action; sync.Pool's Get   *)
(* and Put are linearizable, and an object is private to its holder from   *)
(* Get to Release, so callers interleave at the granularity of calls.      *)
(***************************************************************************)
EXTENDS Integers, Sequences, FiniteSets, TLC

\* ------------------------------------------------------------------ bounds
NumCallers == 2      \* concurrent callers of the keeper
MaxInst    == 2      \* objects a pool's factory may build in one run
MaxWindow  == 2      \* longest Window a caller builds by appending
MaxOps     == 4      \* calls explored per run
IntBits    == 16     \* width of the height integer (int64 in the code, scaled)

\* --------------------------------------------------------------- constants
Base == 10           \* strconv.FormatInt(height, 10) / ParseInt(s, 10, 64)
WindowCap == 10      \* make([]uint64, 0, 10): the capacity of a new State's Window

Callers == 1..NumCallers
Inst    == 1..MaxInst
NoInst  == 0

MinInt == -(2^(IntBits - 1))
MaxInt == 2^(IntBits - 1) - 1

\* store keys (types.KeyEnabledHeight, types.KeyParams, types.KeyState)
KeyEnabledHeight == "EnabledHeight"
KeyParams        == "Params"
KeyState         == "State"
Keys == {KeyEnabledHeight, KeyParams, KeyState}

\* pools of the keeper
StatePool  == "statePool"
ParamsPool == "paramsPool"
Pools == {StatePool, ParamsPool}

\* errors
NoErr             == "nil"
ErrSyntax         == "strconv.ErrSyntax"
ErrRange          == "strconv.ErrRange"
ErrResolverNotSet == "ErrResolverNotSet"
ErrMalformed      == "MalformedRecord"
ErrEncode         == "EncodeError"

\* ---------------------------------------------------------------- decimals
\* A LegacyDec is an integer here; NilDec is the unset decimal of a Go zero
\* value, BadDec a decimal whose encoding fails.
NilDec == -1
BadDec == -2
Dec == {0, 1, 2}
LegacyZeroDec == 0
LegacyOneDec  == 1

\* ----------------------------------------------- EnabledHeight: text codec
DigitChar == <<"0", "1", "2", "3", "4", "5", "6", "7", "8", "9">>

RECURSIVE FormatUint(_)
FormatUint(n) ==
    IF n < Base THEN <<DigitChar[n + 1]>>
    ELSE Append(FormatUint(n \div Base), DigitChar[(n % Base) + 1])

\* FormatInt drops the sign: the bug a mutant of FormatInt stands for
FormatIntUnsigned(i) == IF i < 0 THEN FormatUint(-i) ELSE FormatUint(i)

\* strconv.FormatInt(i, 10)
FormatInt(i) == IF i < 0 THEN <<"-">> \o FormatUint(-i) ELSE FormatUint(i)

IsDigit(ch) == \E d \in 1..Base : DigitChar[d] = ch
DigitVal(ch) == (CHOOSE d \in 1..Base : DigitChar[d] = ch) - 1

\* strconv.ParseUint(s, 10, IntBits): [n, err]; the accumulator saturates
\* at 2^IntBits - 1 with ErrRange, as the cutoff checks of the code make it
RECURSIVE ParseUintFrom(_, _, _)
ParseUintFrom(s, k, acc) ==
    IF k > Len(s) THEN [n |-> acc, err |-> NoErr]
    ELSE IF ~IsDigit(s[k]) THEN [n |-> 0, err |-> ErrSyntax]
    ELSE IF acc * Base + DigitVal(s[k]) > 2^IntBits - 1
         THEN [n |-> 2^IntBits - 1, err |-> ErrRange]
    ELSE ParseUintFrom(s, k + 1, acc * Base + DigitVal(s[k]))

ParseUint(s) ==
    IF Len(s) = 0 THEN [n |-> 0, err |-> ErrSyntax] ELSE ParseUintFrom(s, 1, 0)

\* ParseInt that ignores a leading sign character
ParseIntNoSign(s) ==
    LET digits == IF Len(s) > 0 /\ s[1] \in {"+", "-"} THEN Tail(s) ELSE s
        u == ParseUint(digits)
    IN  IF Len(s) = 0 THEN [n |-> 0, err |-> ErrSyntax]
        ELSE IF u.err # NoErr /\ u.err # ErrRange THEN [n |-> 0, err |-> u.err]
        ELSE IF u.n > MaxInt THEN [n |-> MaxInt, err |-> ErrRange]
        ELSE [n |-> u.n, err |-> NoErr]

\* strconv.ParseInt(s, 10, IntBits): [n, err]
ParseInt(s) ==
    LET neg    == Len(s) > 0 /\ s[1] = "-"
        digits == IF Len(s) > 0 /\ s[1] \in {"+", "-"} THEN Tail(s) ELSE s
        u      == ParseUint(digits)
        cutoff == 2^(IntBits - 1)
    IN  IF Len(s) = 0 THEN [n |-> 0, err |-> ErrSyntax]
        ELSE IF u.err # NoErr /\ u.err # ErrRange THEN [n |-> 0, err |-> u.err]
        ELSE IF ~neg /\ u.n >= cutoff THEN [n |-> cutoff - 1, err |-> ErrRange]
        ELSE IF neg /\ u.n > cutoff THEN [n |-> -cutoff, err |-> ErrRange]
        ELSE [n |-> IF neg THEN -u.n ELSE u.n, err |-> NoErr]

\* ------------------------------------------------- Params / State records
\* types.State
StateRec(bgp, lr, win) == [BaseGasPrice |-> bgp, LearningRate |-> lr, Window |-> win]

ParamFields == <<"Alpha", "Beta", "Gamma", "Delta",
                 "MinBaseGasPrice", "MinLearningRate", "MaxLearningRate">>
ParamNames == {ParamFields[t] : t \in 1..Len(ParamFields)}

\* types.State{} and types.Params{}: the Go zero values the plain Get
\* paths decode into
EmptyState  == StateRec(NilDec, NilDec, <<>>)
EmptyParams == [f \in ParamNames |-> NilDec]

\* a Params factory that leaves every field unset
NewParamsUnset == [f \in ParamNames |-> NilDec]

\* what the pools' factories build
NewState  == StateRec(LegacyZeroDec, LegacyZeroDec, <<>>)
NewParams == [f \in ParamNames |-> LegacyOneDec]

\* ------------------------------------------------------ binary record codec
\* A stored record is a sequence of fields [tag, dec, win]: tag t >= 1 is
\* field number t of the message, tag 0 a field that does not parse
\* (truncated or of the wrong wire type).
Field(t, d, w) == [tag |-> t, dec |-> d, win |-> w]
BadField == Field(0, 0, <<>>)

\* State.Marshal: [bz, err].  The two decimals are always written, the
\* packed Window only when it has entries.
MarshalState(v) ==
    IF BadDec \in {v.BaseGasPrice, v.LearningRate}
    THEN [bz |-> <<>>, err |-> ErrEncode]
    ELSE [bz |-> <<Field(1, v.BaseGasPrice, <<>>), Field(2, v.LearningRate, <<>>)>>
                 \o (IF Len(v.Window) > 0 THEN <<Field(3, 0, v.Window)>> ELSE <<>>),
          err |-> NoErr]

\* State.Unmarshal(bz) on the receiver m: [v, err].  Fields are merged
\* into the receiver in order: a decimal replaces the receiver's, Window
\* entries are appended to the receiver's Window, an unknown field is
\* skipped, a field that does not parse stops the decode with an error
\* and leaves what was merged so far.
RECURSIVE UnmarshalStateFrom(_, _, _)
UnmarshalStateFrom(m, bz, k) ==
    IF k > Len(bz) THEN [v |-> m, err |-> NoErr]
    ELSE IF bz[k].tag = 0 THEN [v |-> m, err |-> ErrMalformed]
    ELSE IF bz[k].tag = 1
         THEN UnmarshalStateFrom([m EXCEPT !.BaseGasPrice = bz[k].dec], bz, k + 1)
    ELSE IF bz[k].tag = 2
         THEN UnmarshalStateFrom([m EXCEPT !.LearningRate = bz[k].dec], bz, k + 1)
    ELSE IF bz[k].tag = 3
         THEN UnmarshalStateFrom([m EXCEPT !.Window = @ \o bz[k].win], bz, k + 1)
    ELSE UnmarshalStateFrom(m, bz, k + 1)

UnmarshalState(m, bz) == UnmarshalStateFrom(m, bz, 1)

\* Params.Marshal: [bz, err]
MarshalParams(v) ==
    IF \E f \in ParamNames : v[f] = BadDec
    THEN [bz |-> <<>>, err |-> ErrEncode]
    ELSE [bz |-> [t \in 1..Len(ParamFields) |-> Field(t, v[ParamFields[t]], <<>>)],
          err |-> NoErr]

\* Params.Unmarshal(bz) on the receiver m: [v, err]
RECURSIVE UnmarshalParamsFrom(_, _, _)
UnmarshalParamsFrom(m, bz, k) ==
    IF k > Len(bz) THEN [v |-> m, err |-> NoErr]
    ELSE IF bz[k].tag = 0 THEN [v |-> m, err |-> ErrMalformed]
    ELSE IF bz[k].tag \in 1..Len(ParamFields)
         THEN UnmarshalParamsFrom([m EXCEPT ![ParamFields[bz[k].tag]] = bz[k].dec],
                                  bz, k + 1)
    ELSE UnmarshalParamsFrom(m, bz, k + 1)

UnmarshalParams(m, bz) == UnmarshalParamsFrom(m, bz, 1)

\* ---------------------------------------------------------------- authority
ErrPanic      == "panic: invalid authority address"
ErrBech32     == "decoding bech32 failed"
ErrEmptyAddr  == "empty address string is not allowed"

\* sample authority strings: the addresses of two module accounts, and
\* three strings that are no account address (empty, no bech32 text, an
\* address of another chain's prefix)
GovAuthority == "cosmos10d07y265gmmuvt4z0w9aw880jnsr700j6zn9kn"
WellFormed   == {GovAuthority, "cosmos17xpfvakm2amg962yls6f84z3kell8c5lserqta"}
Malformed    == {"", "gov", "osmo10d07y265gmmuvt4z0w9aw880jnsr700jjce4t2"}
Authorities  == WellFormed \cup Malformed

\* an address check that accepts every string
AccAddressFromBech32Any(a) == NoErr

\* sdk.AccAddressFromBech32(a): the error it returns
AccAddressFromBech32(a) ==
    IF a = "" THEN ErrEmptyAddr
    ELSE IF a \in WellFormed THEN NoErr
    ELSE ErrBech32

\* --------------------------------------------------------- denom resolvers
\* sdk.DecCoin
Coin(d, a) == [denom |-> d, amount |-> a]
EmptyCoin == Coin("", 0)
Denoms == {"atom"}
Coins  == {Coin("stake", 1)}

NilResolver == "nil"
Resolvers == {"double", "failing"}

\* resolver.ConvertToDenom(ctx, coin, denom) of the two sample resolvers:
\* one converts, one fails and hands back a non-empty coin with its error
ConvertToDenom(r, coin, denom) ==
    IF r = "double" THEN [coin |-> Coin(denom, coin.amount * 2), err |-> NoErr]
    ELSE [coin |-> coin, err |-> "ErrNoRate"]

\* ------------------------------------------------------------------- state
VARIABLES
    keeper,     \* NewKeeper returned a keeper (FALSE: it panicked)
    authority,  \* k.authority
    store,      \* ctx.KVStore(k.storeKey): key -> [has, bz]
    resolver,   \* k.resolver
    free,       \* pool -> object -> copies of it in the sync.Pool
    built,      \* pool -> objects its factory has built
    held,       \* pool -> caller -> object -> live handles on it
    dropped,    \* pool -> objects the runtime dropped from the sync.Pool
    maxLive,    \* history: pool -> most handles that were live at one time
    stateObj,   \* object of statePool -> the *types.State it is
    paramsObj,  \* object of paramsPool -> the *types.Params it is
    written,    \* history: key -> the record last stored by SetState/SetParams
    last,       \* history: the last call, its arguments and what it returned
    ops         \* calls made so far

vars == <<keeper, authority, store, resolver, free, built, held, dropped, maxLive,
          stateObj, paramsObj, written, last, ops>>

\* one more call on the keeper that NewKeeper returned, while the run's
\* budget lasts
Tick == keeper /\ ops < MaxOps /\ ops' = ops + 1

\* ------------------------------------------------------------ the KV store
Absent == [has |-> FALSE, bz |-> <<>>]

\* store.Get(key): the entry; bz is nil (no bytes) when the key is absent
StoreGet(s, key) == s[key]

\* a store.Set that confuses the Params key and the State key
StoreSetWrongKey(s, key, bz) ==
    LET k == IF key = KeyState THEN KeyParams
             ELSE IF key = KeyParams THEN KeyState ELSE key
    IN  [s EXCEPT ![k] = [has |-> TRUE, bz |-> bz]]

\* store.Set(key, bz)
StoreSet(s, key, bz) == [s EXCEPT ![key] = [has |-> TRUE, bz |-> bz]]

\* a Set that keeps what the key already holds
SetResultIfAbsent(s, key, r) ==
    IF r.err # NoErr \/ s[key].has THEN s ELSE StoreSet(s, key, r.bz)

\* a Set that writes before it looks at the encoder's error
SetResultUnchecked(s, key, r) == StoreSet(s, key, r.bz)

\* SetState / SetParams after Marshal returned r = [bz, err]: return on
\* the error, store.Set(key, bz) otherwise
SetResult(s, key, r) == IF r.err # NoErr THEN s ELSE StoreSet(s, key, r.bz)

\* bz == nil is never true
IsNilNever(e) == FALSE

\* bz == nil
IsNil(e) == ~e.has

\* ------------------------------------------------------------ MessagePool
\* sync.Pool.Get may hand out any object it holds, or ignore what it holds
\* and call New: the objects a Get may return.  A new object takes the
\* first unused identity.
\* a pool that hands out every object it ever built, released or not
RecyclableBuilt(p) == built[p]

Recyclable(p) == {i \in Inst : free[p][i] > 0}
FreshId(p) == CHOOSE i \in Inst \ built[p] : \A j \in Inst \ built[p] : i <= j
GetChoices(p) == Recyclable(p) \cup (IF built[p] # Inst THEN {FreshId(p)} ELSE {})

\* a Get that leaves the object in the pool
GetKeep(f, i) == f

\* MessagePool.Get: the pool after it returned object i
Get(f, i) == [f EXCEPT ![i] = IF @ > 0 THEN @ - 1 ELSE 0]

\* MessagePool.put: the pool after object i was put
put(f, i) == [f EXCEPT ![i] = @ + 1]

\* an error path that forgets the Release
ReleaseOnErrorMissing(f, i) == f

\* state.Release() / params.Release() on the decode error path
ReleaseOnError(f, i) == put(f, i)

\* the deferred store.Release() is left out
StoreReleasesNone(pooled) == 0

\* store.Release() calls of a fast read: the deferred call runs once when
\* the read returns, on either path, if the store handle is a pooledKVStore
StoreReleases(pooled) == IF pooled THEN 1 ELSE 0

\* the calls of a fast read on its store handle, in order: store.Get,
\* and the deferred store.Release when the read returns
StoreCalls(pooled) == <<"Get">> \o [k \in 1..StoreReleases(pooled) |-> "Release"]

\* a truncation that keeps the entries
TruncateKeep(w) == w

\* state.Value.Window[:0]
Truncate(w) == SubSeq(w, 1, 0)

Live(p, i) == \E c \in Callers : held[p][c][i] > 0
Handles(p, i) == LET RECURSIVE Sum(_)
                     Sum(n) == IF n = 0 THEN 0 ELSE held[p][n][i] + Sum(n - 1)
                 IN  Sum(NumCallers)

\* live handles of pool p, over all its objects
LiveHandles(p) == LET RECURSIVE Sum(_)
                      Sum(n) == IF n = 0 THEN 0 ELSE Handles(p, n) + Sum(n - 1)
                  IN  Sum(MaxInst)

Max(a, b) == IF a >= b THEN a ELSE b

\* ------------------------------------------------------------ call records
Call(op, c) ==
    [op |-> op, c |-> c, err |-> NoErr,
     inst |-> NoInst,        \* object of the returned handle (NoInst: empty handle)
     taken |-> NoInst,       \* object the call took from its pool
     fresh |-> FALSE,        \* the factory built it in this call
     dirty |-> 0,            \* its Window length as taken from the pool
     atDecode |-> 0,         \* its Window length when Unmarshal starts
     writes |-> 0,           \* store.Set calls the call made
     pooledStore |-> FALSE,  \* the call's store handle is a pooledKVStore
     storeReleases |-> 0,    \* store.Release calls the call made
     storeCalls |-> <<>>,    \* the call's calls on its store handle, in order
     auth |-> "",            \* authority argument or result
     madeSt |-> EmptyState,  \* the State the factory built in this call
     madePr |-> EmptyParams, \* the Params the factory built in this call
     h |-> 0,                \* height argument or result
     st |-> EmptyState,      \* State argument or result
     pr |-> EmptyParams,     \* Params argument or result
     coin |-> EmptyCoin,     \* coin result
     argCoin |-> EmptyCoin, argDenom |-> "", res |-> NilResolver]

\* ------------------------------------------------------------------ inputs
Heights == {MinInt, -1, 0, 1000, MaxInt}
Samples == {7, 9}
StateInputs == {StateRec(1, 1, <<7, 9>>), StateRec(2, 1, <<>>),
                StateRec(BadDec, 1, <<7>>)}
\* a Window one sample longer than the capacity the factory reserves
LongWindow == [k \in 1..(WindowCap + 1) |-> 7]
LongStateInputs == {StateRec(1, 2, LongWindow)}
ParamsInputs == {[NewParams EXCEPT !["Alpha"] = 2],
                 [NewParams EXCEPT !["Alpha"] = 0, !["MaxLearningRate"] = 2],
                 [NewParams EXCEPT !["Gamma"] = BadDec]}

NoRecord == [has |-> FALSE, h |-> 0, st |-> EmptyState, pr |-> EmptyParams]

\* ------------------------------------------------------------------- Init
\* NewKeeper(cdc, storeKey, authKeeper, r, a): it panics on an authority
\* that is no account address, and then there is no keeper; otherwise the
\* keeper has the resolver and the authority given, two pools holding
\* nothing, and its store is empty.
NewKeeper(r, a) ==
    LET err == AccAddressFromBech32(a)
    IN  /\ keeper = (err = NoErr)
        /\ authority = IF err = NoErr THEN a ELSE ""
        /\ resolver = IF err = NoErr THEN r ELSE NilResolver
        /\ store = [k \in Keys |-> Absent]
        /\ free = [p \in Pools |-> [i \in Inst |-> 0]]
        /\ built = [p \in Pools |-> {}]
        /\ held = [p \in Pools |-> [c \in Callers |-> [i \in Inst |-> 0]]]
        /\ dropped = [p \in Pools |-> {}]
        /\ maxLive = [p \in Pools |-> 0]
        /\ stateObj = [i \in Inst |-> NewState]
        /\ paramsObj = [i \in Inst |-> NewParams]
        /\ written = [k \in Keys |-> NoRecord]
        /\ last = [Call("NewKeeper", 0) EXCEPT
                      !.auth = a,
                      !.res = IF err = NoErr THEN r ELSE NilResolver,
                      !.err = IF err = NoErr THEN NoErr ELSE ErrPanic]
        /\ ops = 0

\* a keeper of the governance authority, constructed without a resolver
Init == NewKeeper(NilResolver, GovAuthority)

\* a keeper without a resolver, constructed with any authority string
InitNew == \E a \in Authorities : NewKeeper(NilResolver, a)

\* a keeper of the governance authority, constructed with any resolver
InitResolver == \E r \in {NilResolver} \cup Resolvers : NewKeeper(r, GovAuthority)

\* -------------------------------------------------------------- authority
\* GetAuthority
GetAuthority ==
    /\ Tick
    /\ last' = [Call("GetAuthority", 0) EXCEPT !.auth = authority]
    /\ UNCHANGED <<keeper, authority, maxLive, store, resolver, free, built, held, dropped, stateObj, paramsObj, written>>

\* ---------------------------------------------------------- EnabledHeight
\* GetEnabledHeight
GetEnabledHeight ==
    /\ Tick
    /\ LET e == StoreGet(store, KeyEnabledHeight)
           r == ParseInt(e.bz)
       IN  /\ last' = IF IsNil(e)
                      THEN [Call("GetEnabledHeight", 0) EXCEPT !.h = -1]
                      ELSE [Call("GetEnabledHeight", 0) EXCEPT !.h = r.n, !.err = r.err]
           /\ UNCHANGED <<keeper, authority, maxLive, store, resolver, free, built, held, dropped, stateObj, paramsObj, written>>

\* SetEnabledHeight
SetEnabledHeight(height) ==
    /\ Tick
    /\ store' = StoreSet(store, KeyEnabledHeight, FormatInt(height))
    /\ written' = [written EXCEPT ![KeyEnabledHeight] = [NoRecord EXCEPT !.has = TRUE, !.h = height]]
    /\ last' = [Call("SetEnabledHeight", 0) EXCEPT !.h = height, !.writes = 1]
    /\ UNCHANGED <<keeper, authority, maxLive, resolver, free, built, held, dropped, stateObj, paramsObj>>

\* --------------------------------------------------------------- resolver
\* a SetDenomResolver that only fills an unset resolver
SetResolverIfUnset(old, new) == IF old = NilResolver THEN new ELSE old

\* k.resolver = resolver
SetResolver(old, new) == new

\* ResolveToDenom
ResolveToDenom(coin, denom) ==
    /\ Tick
    /\ LET r == ConvertToDenom(resolver, coin, denom)
       IN  /\ last' = IF resolver = NilResolver
                      THEN [Call("ResolveToDenom", 0) EXCEPT
                               !.err = ErrResolverNotSet, !.coin = EmptyCoin,
                               !.argCoin = coin, !.argDenom = denom]
                      ELSE [Call("ResolveToDenom", 0) EXCEPT
                               !.err = r.err, !.coin = r.coin,
                               !.argCoin = coin, !.argDenom = denom, !.res = resolver]
           /\ UNCHANGED <<keeper, authority, maxLive, store, resolver, free, built, held, dropped, stateObj, paramsObj, written>>

\* SetDenomResolver
SetDenomResolver(r) ==
    /\ Tick
    /\ resolver' = SetResolver(resolver, r)
    /\ last' = [Call("SetDenomResolver", 0) EXCEPT !.res = r]
    /\ UNCHANGED <<keeper, authority, maxLive, store, free, built, held, dropped, stateObj, paramsObj, written>>

\* ------------------------------------------------------------------ State
\* GetState
GetState ==
    /\ Tick
    /\ LET e == StoreGet(store, KeyState)
           r == UnmarshalState(EmptyState, e.bz)
       IN  /\ last' = IF r.err # NoErr
                      THEN [Call("GetState", 0) EXCEPT !.err = r.err, !.st = EmptyState]
                      ELSE [Call("GetState", 0) EXCEPT !.st = r.v]
           /\ UNCHANGED <<keeper, authority, maxLive, store, resolver, free, built, held, dropped, stateObj, paramsObj, written>>

\* GetStateFast: object i is the one statePool.Get returns; pooled says
\* whether ctx.KVStore gave a pooledKVStore
GetStateFast(c, pooled) ==
    /\ Tick
    /\ \E i \in GetChoices(StatePool) :
           LET e     == StoreGet(store, KeyState)
               fresh == i \notin built[StatePool]
               got   == IF fresh THEN NewState ELSE stateObj[i]
               clean == [got EXCEPT !.Window = Truncate(@)]
               r     == UnmarshalState(clean, e.bz)
               f     == Get(free[StatePool], i)
               call  == [Call("GetStateFast", c) EXCEPT
                            !.taken = i, !.fresh = fresh,
                            !.madeSt = IF fresh THEN got ELSE EmptyState,
                            !.dirty = Len(got.Window), !.atDecode = Len(clean.Window),
                            !.pooledStore = pooled,
                            !.storeReleases = StoreReleases(pooled),
                            !.storeCalls = StoreCalls(pooled)]
           IN  /\ built' = [built EXCEPT ![StatePool] = @ \cup {i}]
               /\ stateObj' = [stateObj EXCEPT ![i] = r.v]
               /\ IF r.err # NoErr
                  THEN /\ free' = [free EXCEPT ![StatePool] = ReleaseOnError(f, i)]
                       /\ held' = held
                       /\ last' = [call EXCEPT !.err = r.err]
                  ELSE /\ free' = [free EXCEPT ![StatePool] = f]
                       /\ held' = [held EXCEPT ![StatePool][c][i] = @ + 1]
                       /\ last' = [call EXCEPT !.inst = i]
               /\ maxLive' = [maxLive EXCEPT ![StatePool] = Max(@, LiveHandles(StatePool) + 1)]
               /\ UNCHANGED <<keeper, authority, store, resolver, dropped, paramsObj, written>>

\* SetState: the caller passes a State it built, or the value of a pooled
\* State it holds
SetState(state) ==
    /\ Tick
    /\ LET r == MarshalState(state)
       IN  /\ store' = SetResult(store, KeyState, r)
           /\ IF r.err # NoErr
              THEN /\ written' = written
                   /\ last' = [Call("SetState", 0) EXCEPT !.err = r.err, !.st = state]
              ELSE /\ written' = [written EXCEPT ![KeyState] = [NoRecord EXCEPT !.has = TRUE, !.st = state]]
                   /\ last' = [Call("SetState", 0) EXCEPT !.st = state, !.writes = 1]
    /\ UNCHANGED <<keeper, authority, maxLive, resolver, free, built, held, dropped, stateObj, paramsObj>>

\* ----------------------------------------------------------------- Params
\* GetParams
GetParams ==
    /\ Tick
    /\ LET e == StoreGet(store, KeyParams)
           r == UnmarshalParams(EmptyParams, e.bz)
       IN  /\ last' = IF r.err # NoErr
                      THEN [Call("GetParams", 0) EXCEPT !.err = r.err, !.pr = EmptyParams]
                      ELSE [Call("GetParams", 0) EXCEPT !.pr = r.v]
           /\ UNCHANGED <<keeper, authority, maxLive, store, resolver, free, built, held, dropped, stateObj, paramsObj, written>>

\* GetParamsFast: object i is the one paramsPool.Get returns
GetParamsFast(c, pooled) ==
    /\ Tick
    /\ \E i \in GetChoices(ParamsPool) :
           LET e     == StoreGet(store, KeyParams)
               fresh == i \notin built[ParamsPool]
               got   == IF fresh THEN NewParams ELSE paramsObj[i]
               r     == UnmarshalParams(got, e.bz)
               f     == Get(free[ParamsPool], i)
               call  == [Call("GetParamsFast", c) EXCEPT
                            !.taken = i, !.fresh = fresh,
                            !.madePr = IF fresh THEN got ELSE EmptyParams,
                            !.pooledStore = pooled,
                            !.storeReleases = StoreReleases(pooled),
                            !.storeCalls = StoreCalls(pooled)]
           IN  /\ built' = [built EXCEPT ![ParamsPool] = @ \cup {i}]
               /\ paramsObj' = [paramsObj EXCEPT ![i] = r.v]
               /\ IF r.err # NoErr
                  THEN /\ free' = [free EXCEPT ![ParamsPool] = ReleaseOnError(f, i)]
                       /\ held' = held
                       /\ last' = [call EXCEPT !.err = r.err]
                  ELSE /\ free' = [free EXCEPT ![ParamsPool] = f]
                       /\ held' = [held EXCEPT ![ParamsPool][c][i] = @ + 1]
                       /\ last' = [call EXCEPT !.inst = i]
               /\ maxLive' = [maxLive EXCEPT ![ParamsPool] = Max(@, LiveHandles(ParamsPool) + 1)]
               /\ UNCHANGED <<keeper, authority, store, resolver, dropped, stateObj, written>>

\* SetParams
SetParams(params) ==
    /\ Tick
    /\ LET r == MarshalParams(params)
       IN  /\ store' = SetResult(store, KeyParams, r)
           /\ IF r.err # NoErr
              THEN /\ written' = written
                   /\ last' = [Call("SetParams", 0) EXCEPT !.err = r.err, !.pr = params]
              ELSE /\ written' = [written EXCEPT ![KeyParams] = [NoRecord EXCEPT !.has = TRUE, !.pr = params]]
                   /\ last' = [Call("SetParams", 0) EXCEPT !.pr = params, !.writes = 1]
    /\ UNCHANGED <<keeper, authority, maxLive, resolver, free, built, held, dropped, stateObj, paramsObj>>

\* ------------------------------------------------- the holder of a handle
\* PooledMessage.Release, called once by the handle's holder
Release(c, p, i) ==
    /\ Tick
    /\ held[p][c][i] > 0
    /\ held' = [held EXCEPT ![p][c][i] = @ - 1]
    /\ free' = [free EXCEPT ![p] = put(@, i)]
    /\ last' = [Call("Release", c) EXCEPT !.taken = i]
    /\ UNCHANGED <<keeper, authority, maxLive, store, resolver, built, dropped, stateObj, paramsObj, written>>

\* the holder appends a gas sample to the pooled State's Window
AppendWindow(c, i, x) ==
    /\ Tick
    /\ held[StatePool][c][i] > 0
    /\ Len(stateObj[i].Window) < MaxWindow
    /\ stateObj' = [stateObj EXCEPT ![i].Window = Append(@, x)]
    /\ last' = [Call("AppendWindow", c) EXCEPT !.taken = i]
    /\ UNCHANGED <<keeper, authority, maxLive, store, resolver, free, built, held, dropped, paramsObj, written>>

\* the holder sets a decimal of the pooled State
SetStateDec(c, i, fld, d) ==
    /\ Tick
    /\ held[StatePool][c][i] > 0
    /\ stateObj' = [stateObj EXCEPT ![i][fld] = d]
    /\ last' = [Call("SetStateDec", c) EXCEPT !.taken = i]
    /\ UNCHANGED <<keeper, authority, maxLive, store, resolver, free, built, held, dropped, paramsObj, written>>

\* the holder sets a field of the pooled Params
SetParamsDec(c, i, fld, d) ==
    /\ Tick
    /\ held[ParamsPool][c][i] > 0
    /\ paramsObj' = [paramsObj EXCEPT ![i][fld] = d]
    /\ last' = [Call("SetParamsDec", c) EXCEPT !.taken = i]
    /\ UNCHANGED <<keeper, authority, maxLive, store, resolver, free, built, held, dropped, stateObj, written>>

\* ------------------------------------------------------------ the runtime
\* sync.Pool drops an idle object (its cleanup at garbage collection)
PoolDrop(p, i) ==
    /\ Tick
    /\ free[p][i] > 0
    /\ free' = [free EXCEPT ![p][i] = @ - 1]
    /\ stateObj' = IF p = StatePool /\ free[p][i] = 1 /\ ~Live(p, i)
                   THEN [stateObj EXCEPT ![i] = NewState] ELSE stateObj
    /\ paramsObj' = IF p = ParamsPool /\ free[p][i] = 1 /\ ~Live(p, i)
                    THEN [paramsObj EXCEPT ![i] = NewParams] ELSE paramsObj
    /\ dropped' = [dropped EXCEPT ![p] = @ \cup {i}]
    /\ last' = [Call("PoolDrop", 0) EXCEPT !.taken = i]
    /\ UNCHANGED <<keeper, authority, maxLive, store, resolver, built, held, written>>

\* -------------------------------------------------- other writers of the store
\* bytes another writer of the store (an import, a migration, a test) may
\* leave under a key
ForeignBytes(key) ==
    IF key = KeyState
    THEN {<<BadField>>, <<Field(1, 2, <<>>), Field(3, 0, <<9>>), BadField>>,
          <<Field(3, 0, <<7>>)>>}
    ELSE {<<Field(1, 2, <<>>), BadField>>, <<Field(2, 2, <<>>)>>}

ForeignWrite(key, bz) ==
    /\ Tick
    /\ store' = StoreSet(store, key, bz)
    /\ written' = [written EXCEPT ![key] = NoRecord]
    /\ last' = Call("ForeignWrite", 0)
    /\ UNCHANGED <<keeper, authority, maxLive, resolver, free, built, held, dropped, stateObj, paramsObj>>

\* ---------------------------------------------------------- specifications
AllHeld(p) == {i \in Inst : Live(p, i)}
HeldStates == {stateObj[i] : i \in AllHeld(StatePool)}
HeldParams == {paramsObj[i] : i \in AllHeld(ParamsPool)}
MutableStateFields == {"BaseGasPrice", "LearningRate"}
MutableParamFields == {"Alpha", "MaxLearningRate"}
NewDecs == {2}

\* the calls that read and write the two records, the holders of the
\* pooled handles and the runtime
RecordStep ==
    \/ GetState
    \/ \E c \in Callers, pooled \in BOOLEAN : GetStateFast(c, pooled)
    \/ \E v \in StateInputs \cup HeldStates : SetState(v)
    \/ GetParams
    \/ \E c \in Callers, pooled \in BOOLEAN : GetParamsFast(c, pooled)
    \/ \E v \in ParamsInputs \cup HeldParams : SetParams(v)
    \/ \E c \in Callers, p \in Pools, i \in Inst : Release(c, p, i)
    \/ \E c \in Callers, i \in Inst, x \in Samples : AppendWindow(c, i, x)
    \/ \E c \in Callers, i \in Inst, fld \in MutableStateFields, d \in NewDecs : SetStateDec(c, i, fld, d)
    \/ \E c \in Callers, i \in Inst, fld \in MutableParamFields, d \in NewDecs : SetParamsDec(c, i, fld, d)
    \/ \E p \in Pools, i \in Inst : PoolDrop(p, i)

\* the keeper, the holders of its pooled handles and the runtime
Next ==
    \/ GetEnabledHeight
    \/ \E h \in Heights : SetEnabledHeight(h)
    \/ \E coin \in Coins, denom \in Denoms : ResolveToDenom(coin, denom)
    \/ \E r \in {NilResolver} \cup Resolvers : SetDenomResolver(r)
    \/ RecordStep

Spec == Init /\ [][Next]_vars

\* the two records over a store that other writers write too
NextEnv ==
    \/ RecordStep
    \/ \E key \in {KeyState, KeyParams} : \E bz \in ForeignBytes(key) : ForeignWrite(key, bz)

SpecEnv == Init /\ [][NextEnv]_vars

\* construction, then the keeper's methods and the release of its handles
NextNew ==
    \/ GetAuthority
    \/ GetEnabledHeight
    \/ \E h \in Heights : SetEnabledHeight(h)
    \/ \E coin \in Coins, denom \in Denoms : ResolveToDenom(coin, denom)
    \/ \E r \in {NilResolver} \cup Resolvers : SetDenomResolver(r)
    \/ GetState
    \/ \E c \in Callers, pooled \in BOOLEAN : GetStateFast(c, pooled)
    \/ \E v \in StateInputs \cup LongStateInputs \cup HeldStates : SetState(v)
    \/ GetParams
    \/ \E c \in Callers, pooled \in BOOLEAN : GetParamsFast(c, pooled)
    \/ \E v \in ParamsInputs \cup HeldParams : SetParams(v)
    \/ \E c \in Callers, p \in Pools, i \in Inst : Release(c, p, i)

SpecNew == InitNew /\ [][NextNew]_vars

\* a keeper constructed with any resolver, and its methods that read and
\* write no record
NextScalar ==
    \/ GetAuthority
    \/ GetEnabledHeight
    \/ \E h \in Heights : SetEnabledHeight(h)
    \/ \E coin \in Coins, denom \in Denoms : ResolveToDenom(coin, denom)
    \/ \E r \in {NilResolver} \cup Resolvers : SetDenomResolver(r)

SpecScalar == InitResolver /\ [][NextScalar]_vars

\* ================================================================ claims
PoolOf(op) == IF op = "GetStateFast" THEN StatePool ELSE ParamsPool
FastGets == {"GetStateFast", "GetParamsFast"}

\* the Window last stored under the State key (none while it is absent)
StoredWindow == IF written[KeyState].has THEN written[KeyState].st.Window ELSE <<>>

\* C1: the pooled State's Window is empty when GetStateFast starts to
\* decode into it, and the Window a successful GetStateFast returns is the
\* stored sequence, in order, with nothing left from an earlier holder.
C1_WindowClearedBeforeDecode ==
    last.op = "GetStateFast" =>
        /\ last.atDecode = 0
        /\ last.err = NoErr => stateObj[last.inst].Window = StoredWindow

\* C1 witness: a recycled object came back with entries in its Window and
\* was decoded into from a stored record that has a Window
C1_Witness ==
    /\ last.op = "GetStateFast"
    /\ ~last.fresh
    /\ last.dirty > 0
    /\ last.err = NoErr
    /\ written[KeyState].has
    /\ stateObj[last.inst].Window = <<7, 9>>

\* C2 as claimed: no object is behind two live handles, and every object
\* the factory built is held by exactly one live handle or is in the pool
C2_NoDuplicateNoLoss ==
    \A p \in Pools : \A i \in Inst :
        Handles(p, i) + free[p][i] = IF i \in built[p] THEN 1 ELSE 0

\* C2 amended: no object is behind two live handles or both held and in
\* the pool; an object the factory built is held by exactly one live
\* handle or is once in the pool, unless the runtime dropped it from the
\* pool while it was idle, and then it is nowhere.
C2_NoDuplicate ==
    \A p \in Pools : \A i \in Inst :
        /\ Handles(p, i) + free[p][i] <= 1
        /\ Handles(p, i) + free[p][i] =
               IF i \in built[p] /\ i \notin dropped[p] THEN 1 ELSE 0

\* C2 witness: two callers hold different objects of one pool, one of them
\* recycled by the Get just made
C2_Witness ==
    /\ last.op \in FastGets
    /\ ~last.fresh
    /\ last.err = NoErr
    /\ \E c, d \in Callers : \E i, j \in Inst :
           /\ c # d /\ i # j
           /\ held[PoolOf(last.op)][c][i] = 1
           /\ held[PoolOf(last.op)][d][j] = 1

\* C3: a fast read whose decode fails returns the error and an empty
\* handle, and has put the object it took back into its pool once: no
\* handle is live on it, and the pool has an object for the next Get.
C3_FailedDecodeReleases ==
    (last.op \in FastGets /\ last.err # NoErr) =>
        /\ last.inst = NoInst
        /\ last.taken \in Inst
        /\ free[PoolOf(last.op)][last.taken] = 1
        /\ Handles(PoolOf(last.op), last.taken) = 0
        /\ last.taken \in GetChoices(PoolOf(last.op))

\* C3 witness: GetParamsFast just failed, after a GetStateFast that failed
\* part-way through a record and left its object in the state pool
C3_Witness ==
    /\ last.op = "GetParamsFast"
    /\ last.err = ErrMalformed
    /\ \E i \in Inst : /\ free[StatePool][i] = 1
                       /\ stateObj[i] = StateRec(2, 0, <<9>>)

\* C4: a Get after a successful Set, plain or pooled, returns the record
\* that was set, field for field, the Window in order.
C4_GetReturnsLastSet ==
    /\ (last.op = "GetState" /\ written[KeyState].has) =>
           (last.err = NoErr /\ last.st = written[KeyState].st)
    /\ (last.op = "GetStateFast" /\ written[KeyState].has) =>
           (last.err = NoErr /\ stateObj[last.inst] = written[KeyState].st)
    /\ (last.op = "GetParams" /\ written[KeyParams].has) =>
           (last.err = NoErr /\ last.pr = written[KeyParams].pr)
    /\ (last.op = "GetParamsFast" /\ written[KeyParams].has) =>
           (last.err = NoErr /\ paramsObj[last.inst] = written[KeyParams].pr)

\* C4 witness: GetStateFast decoded a stored State with a Window into a
\* recycled object
C4_Witness ==
    /\ last.op = "GetStateFast"
    /\ ~last.fresh
    /\ written[KeyState].has
    /\ written[KeyState].st = StateRec(1, 1, <<7, 9>>)
    /\ stateObj[last.inst] = StateRec(1, 1, <<7, 9>>)

\* C5: GetEnabledHeight on an absent key returns -1 and no error, and
\* leaves the key absent.
C5_AbsentHeightIsMinusOne ==
    [][(last'.op = "GetEnabledHeight" /\ ~store[KeyEnabledHeight].has) =>
           /\ last'.h = -1
           /\ last'.err = NoErr
           /\ ~store'[KeyEnabledHeight].has]_vars

\* C5 witness: GetEnabledHeight returned on a store without the key
C5_Witness ==
    /\ last.op = "GetEnabledHeight"
    /\ ~store[KeyEnabledHeight].has
    /\ last.h = -1

\* C6: GetEnabledHeight after SetEnabledHeight(h) returns h and no error,
\* for every h of the integer's width; no GetEnabledHeight fails to parse.
C6_HeightRoundTrip ==
    last.op = "GetEnabledHeight" =>
        /\ last.err = NoErr
        /\ written[KeyEnabledHeight].has => last.h = written[KeyEnabledHeight].h

\* C6 witness: the smallest height was set and read back
C6_Witness ==
    /\ last.op = "GetEnabledHeight"
    /\ store[KeyEnabledHeight].has
    /\ last.h = MinInt

\* C7 as claimed: GetEnabledHeight returns -1 exactly when nothing is
\* stored under the key
C7_SentinelOnlyWhenAbsent ==
    last.op = "GetEnabledHeight" =>
        (last.h = -1 <=> ~store[KeyEnabledHeight].has)

\* C7 amended: GetEnabledHeight returns -1 exactly when nothing is stored
\* under the key or the height last set is -1 itself.
C7_SentinelOrStoredMinusOne ==
    last.op = "GetEnabledHeight" =>
        (last.h = -1 <=> (~store[KeyEnabledHeight].has
                          \/ written[KeyEnabledHeight].h = -1))

\* C7 witness: -1 is stored under the key and read back
C7_Witness ==
    /\ last.op = "GetEnabledHeight"
    /\ store[KeyEnabledHeight] = [has |-> TRUE, bz |-> <<"-", "1">>]
    /\ last.h = -1

\* C8: a Set whose encoding fails returns the error and leaves the store
\* as it was; one whose encoding succeeds makes one write, of the whole
\* encoded record, to its key; what a key holds always decodes, without
\* error, to the whole record last set.
C8_SetWritesAllOrNothing ==
    [][/\ (last'.op \in {"SetState", "SetParams"} /\ last'.err # NoErr) =>
              (store' = store /\ last'.writes = 0)
       /\ (last'.op = "SetState" /\ last'.err = NoErr) =>
              /\ last'.writes = 1
              /\ store' = [store EXCEPT ![KeyState] =
                               [has |-> TRUE, bz |-> MarshalState(last'.st).bz]]
              /\ UnmarshalState(EmptyState, store'[KeyState].bz).err = NoErr
       /\ (last'.op = "SetParams" /\ last'.err = NoErr) =>
              /\ last'.writes = 1
              /\ store' = [store EXCEPT ![KeyParams] =
                               [has |-> TRUE, bz |-> MarshalParams(last'.pr).bz]]
              /\ UnmarshalParams(EmptyParams, store'[KeyParams].bz).err = NoErr
       /\ store'[KeyState].has =>
              UnmarshalState(EmptyState, store'[KeyState].bz)
                  = [v |-> written'[KeyState].st, err |-> NoErr]
       /\ store'[KeyParams].has =>
              UnmarshalParams(EmptyParams, store'[KeyParams].bz)
                  = [v |-> written'[KeyParams].pr, err |-> NoErr]]_vars

\* C8 witness: SetState failed to encode over a State key that holds a
\* record
C8_Witness ==
    /\ last.op = "SetState"
    /\ last.err = ErrEncode
    /\ store[KeyState].has
    /\ written[KeyState].st = StateRec(1, 1, <<7, 9>>)

\* C9: a step changes the value under a key only if it is the Set of that
\* key; every Get, every change a holder makes to a pooled object, and
\* every Release leave the three values as they were.
Setter(key) == IF key = KeyEnabledHeight THEN "SetEnabledHeight"
               ELSE IF key = KeyParams THEN "SetParams" ELSE "SetState"

C9_KeysIndependent ==
    [][\A key \in Keys : store'[key] # store[key] => last'.op = Setter(key)]_vars

\* C9 witness: SetState wrote its key while the other two keys hold values
C9_Witness ==
    /\ last.op = "SetState"
    /\ last.err = NoErr
    /\ store[KeyEnabledHeight].has
    /\ store[KeyParams].has
    /\ store[KeyState].has

\* C10: ResolveToDenom returns ErrResolverNotSet and an empty coin while
\* no resolver is set, and otherwise what the installed resolver returns;
\* the installed resolver is the one last given to the constructor or to
\* SetDenomResolver.
C10_ResolverDelegation ==
    /\ last.op = "ResolveToDenom" =>
           IF resolver = NilResolver
           THEN last.err = ErrResolverNotSet /\ last.coin = EmptyCoin
           ELSE [coin |-> last.coin, err |-> last.err]
                    = ConvertToDenom(resolver, last.argCoin, last.argDenom)
    /\ last.op \in {"NewKeeper", "SetDenomResolver"} => resolver = last.res

\* C10 witness: the failing resolver replaced another one and its coin
\* and error came back
C10_Witness ==
    /\ last.op = "ResolveToDenom"
    /\ resolver = "failing"
    /\ last.err = "ErrNoRate"
    /\ last.coin = Coin("stake", 1)

\* C11: NewKeeper given a malformed authority panics and produces no
\* keeper, so no method is ever called; given a well-formed authority it
\* produces a keeper that has it; no call changes the keeper's authority,
\* and GetAuthority returns it.
C11_AuthorityFixedAtConstruction ==
    /\ [](/\ last.op = "NewKeeper" =>
               /\ keeper <=> last.auth \in WellFormed
               /\ keeper => (last.err = NoErr /\ authority = last.auth)
               /\ ~keeper => last.err = ErrPanic
          /\ ~keeper => (last.op = "NewKeeper" /\ ops = 0))
    /\ [][/\ keeper' = keeper
          /\ authority' = authority
          /\ last'.op = "GetAuthority" =>
                 (last'.err = NoErr /\ last'.auth = authority)]_vars

\* C11 witness: GetAuthority returned the second well-formed authority
\* after a Set, a fast read and the installation of a resolver
C11_Witness ==
    /\ last.op = "GetAuthority"
    /\ last.auth = "cosmos17xpfvakm2amg962yls6f84z3kell8c5lserqta"
    /\ store[KeyState].has
    /\ resolver # NilResolver
    /\ \E c \in Callers, i \in Inst : held[ParamsPool][c][i] = 1

\* C12 as claimed: a Get calls the factory exactly when its pool holds no
\* released object, and a pool's factory has never built more objects
\* than the most handles of the pool that were live at one time
C12_FactoryOnlyWhenEmpty ==
    [][/\ last'.op \in FastGets =>
              /\ last'.taken \in Inst
              /\ last'.fresh <=> Recyclable(PoolOf(last'.op)) = {}
       /\ \A p \in Pools : Cardinality(built'[p]) <= maxLive'[p]]_vars

\* C12 amended: a Get is never blocked (short of the run's caps) and
\* always takes an object: one that was released into the pool and has no
\* live handle, or one the factory builds in this Get, whether or not the
\* pool holds released objects; a successful fast read returns the one
\* live handle on it.  Only a Get builds an object, and one at a time.
C12_GetNeverFails ==
    /\ []((keeper /\ ops < MaxOps) =>
            /\ built[StatePool] # Inst =>
                   ENABLED (\E c \in Callers, pooled \in BOOLEAN : GetStateFast(c, pooled))
            /\ built[ParamsPool] # Inst =>
                   ENABLED (\E c \in Callers, pooled \in BOOLEAN : GetParamsFast(c, pooled)))
    /\ [][/\ last'.op \in FastGets =>
                 LET p == PoolOf(last'.op)
                     i == last'.taken
                 IN  /\ i \in Inst
                     /\ Handles(p, i) = 0
                     /\ IF last'.fresh
                        THEN i \notin built[p] /\ free[p][i] = 0 /\ built'[p] = built[p] \cup {i}
                        ELSE i \in built[p] /\ free[p][i] > 0 /\ built'[p] = built[p]
                     /\ last'.err = NoErr =>
                            /\ last'.inst = i
                            /\ \E q \in Pools, j \in Inst :
                                   q = p /\ j = i /\ Handles(q, j)' = 1
          /\ \A p \in Pools :
                 built'[p] # built[p] =>
                     /\ last'.op \in FastGets /\ PoolOf(last'.op) = p
                     /\ Cardinality(built'[p]) = Cardinality(built[p]) + 1]_vars

\* C12 witness: a Get called the factory while its pool held a released
\* object, and the pool has built more objects than handles were ever
\* live at one time
C12_Witness ==
    /\ last.op \in FastGets
    /\ last.fresh
    /\ last.err = NoErr
    /\ \E j \in Inst : j # last.taken /\ free[PoolOf(last.op)][j] = 1
    /\ Cardinality(built[PoolOf(last.op)]) = 2
    /\ maxLive[PoolOf(last.op)] = 1

\* C13: the Window of the State stored under the State key is never
\* longer than the sample capacity.
C13_StoredWindowWithinCapacity ==
    store[KeyState].has =>
        Len(UnmarshalState(EmptyState, store[KeyState].bz).v.Window) <= WindowCap

\* C14: GetState called right after a GetStateFast, on the store the fast
\* read saw, fails exactly if the fast read failed, and otherwise returns
\* the State the fast read's handle holds, field for field; so nothing an
\* earlier holder left in the pooled object is in the fast read's result.
C14_StateFastEqualsPlain ==
    [][(last.op = "GetStateFast" /\ last'.op = "GetState") =>
           /\ last'.err = NoErr <=> last.err = NoErr
           /\ last.err = NoErr => stateObj[last.inst] = last'.st]_vars

\* C14 witness: over an absent State key, GetStateFast returned a recycled
\* object with the BaseGasPrice its earlier holder had set
C14_Witness ==
    /\ last.op = "GetStateFast"
    /\ ~last.fresh
    /\ last.err = NoErr
    /\ ~store[KeyState].has
    /\ stateObj[last.inst].BaseGasPrice = 2
    /\ UnmarshalState(EmptyState, store[KeyState].bz).v.BaseGasPrice = NilDec

\* C15: GetParams called right after a GetParamsFast, on the store the
\* fast read saw, fails exactly if the fast read failed, and otherwise
\* returns the Params the fast read's handle holds, field for field.
C15_ParamsFastEqualsPlain ==
    [][(last.op = "GetParamsFast" /\ last'.op = "GetParams") =>
           /\ last'.err = NoErr <=> last.err = NoErr
           /\ last.err = NoErr => paramsObj[last.inst] = last'.pr]_vars

\* C15 witness: over an absent Params key, GetParamsFast returned a
\* recycled object with the Alpha its earlier holder had set
C15_Witness ==
    /\ last.op = "GetParamsFast"
    /\ ~last.fresh
    /\ last.err = NoErr
    /\ ~store[KeyParams].has
    /\ paramsObj[last.inst]["Alpha"] = 2
    /\ UnmarshalParams(EmptyParams, store[KeyParams].bz).v["Alpha"] = NilDec

\* C16: the instance a pool's factory builds in a Get has the default
\* values: every field of a Params is one; BaseGasPrice and LearningRate
\* of a State are zero and its Window is empty.
C16_FreshInstanceHasDefaults ==
    /\ (last.op = "GetParamsFast" /\ last.fresh) =>
           /\ DOMAIN last.madePr = {"Alpha", "Beta", "Gamma", "Delta",
                                    "MinBaseGasPrice", "MinLearningRate",
                                    "MaxLearningRate"}
           /\ \A f \in DOMAIN last.madePr : last.madePr[f] = LegacyOneDec
    /\ (last.op = "GetStateFast" /\ last.fresh) =>
           /\ last.madeSt.BaseGasPrice = LegacyZeroDec
           /\ last.madeSt.LearningRate = LegacyZeroDec
           /\ last.madeSt.Window = <<>>

\* C16 witness: GetParamsFast on a pool that holds nothing, its first
\* object being held, had the factory build a second one
C16_Witness ==
    /\ last.op = "GetParamsFast"
    /\ last.fresh
    /\ last.taken = 2
    /\ \A i \in Inst : free[ParamsPool][i] = 0
    /\ \E c \in Callers : held[ParamsPool][c][1] = 1
    /\ last.madePr["Alpha"] = 1

\* C17: a fast read whose store handle is a pooledKVStore calls the
\* handle's Release once, after its store.Get, whether the decode fails
\* or not; one whose handle is not pooled calls no Release; no other
\* keeper method calls it.
C17_StoreReleasedOnce ==
    /\ last.op \in FastGets =>
           /\ last.storeReleases = IF last.pooledStore THEN 1 ELSE 0
           /\ last.storeCalls = IF last.pooledStore THEN <<"Get", "Release">>
                                ELSE <<"Get">>
    /\ last.op \notin FastGets => last.storeReleases = 0

\* C17 witness: GetStateFast over a pooled store handle failed to decode
\* and released the handle
C17_Witness ==
    /\ last.op = "GetStateFast"
    /\ last.pooledStore
    /\ last.err = ErrMalformed
    /\ last.storeCalls = <<"Get", "Release">>

====
